---- MODULE Spec2Model ----
(***************************************************************************)
(* Model of the smart-search job engine of SmartCacheFirstAPI:             *)
(* startSmartSearch, fetchWithThresholdFallback, fetchSimilarListings,     *)
(* fetchFromStreetEasy, combineResults and the two job maps (activeJobs,   *)
(* jobResults), together with the HTTP handlers that start and poll jobs.  *)
(*                                                                         *)
(* JavaScript runs every handler and every continuation of an async        *)
(* function to its next await without interruption, so one action of the   *)
(* model is the code between two awaits.  The collaborators behind the     *)
(* awaits (audit record, cache, listings provider, valuation service) are  *)
(* the environment: their answers are chosen with \E.                      *)
(*                                                                         *)
(* Numeric request fields the code only tests for truthiness (maxPrice,    *)
(* bedrooms) use 0 for "absent": 0 and undefined are both falsy.           *)
(***************************************************************************)
EXTENDS Integers, Sequences, FiniteSets, TLC

\* ------------------------------------------------------------------ bounds
\* longest list the cache answers with
MaxCache == 2
\* longest list the listings provider answers with
MaxFetched == 2
\* longest list handed to combineResults on its own, and the largest
\* maxResults handed to it
MaxCombined == 2
MaxWanted == 3
\* most requests the handlers refuse (400 or 401) in one behaviour
MaxRefused == 1
\* most listings handed to analyzePropertiesWithClaude on its own
MaxScored == 120
\* most listings, and most records in the service's answer, of a call of
\* analyzePropertyBatchWithClaude on its own
MaxBatch == 2

\* ----------------------------------------------------------- job identities
JobIds == {"job_a", "job_b"}

\* The repository holds three builds of the engine; they differ in
\* fetchSimilarListings (and in nothing else the pipeline depends on).
Variants == {"part_000", "api_server_1", "api_server_2"}

NULL == "null"

\* --------------------------------------------------------------- listings
\* A scored listing as fetchFromStreetEasy hands it on (formatPropertyForDatabase
\* keeps the id, the discount and the price); fallbackStrategy is "none" until
\* fetchSimilarListings annotates it, source is set by combineResults.  An
\* optional field is a sequence: empty when the property is absent, of length
\* one when it is there; budgetIncreasePercent is such a field.
MkListing(id, disc, price, src) ==
    [listing_id |-> id, discount_percent |-> disc, scored |-> TRUE, price |-> price,
     source |-> src, fallbackStrategy |-> "none", budgetIncreasePercent |-> <<>>]

\* a listing without a discount_percent (a cache row that was never scored)
MkUnscored(id, price, src) ==
    [MkListing(id, 0, price, src) EXCEPT !.scored = FALSE]

\* (r.discount_percent || 0)
DiscountOf(r) == IF r.scored THEN r.discount_percent ELSE 0

\* listings the cache can hold
CacheListings == { MkListing(1, 8, 30, "cache"), MkListing(2, 4, 10, "cache") }
\* listings the provider can return, already carrying the discount the
\* valuation service will report for them
ProviderListings == { MkListing(1, 9, 20, "raw"), MkListing(3, 3, 10, "raw") }

RECURSIVE SeqsUpTo(_, _)
SeqsUpTo(S, n) ==
    IF n = 0 THEN { <<>> }
    ELSE LET shorter == SeqsUpTo(S, n - 1)
         IN  shorter \cup { Append(s, x) : s \in { t \in shorter : Len(t) = n - 1 }, x \in S }

\* every list the cache, and the provider, can answer with (a list may repeat
\* a listing: nothing in the code rules it out)
CacheAnswers == SeqsUpTo(CacheListings, MaxCache)
ProviderAnswers == SeqsUpTo(ProviderListings, MaxFetched)

\* --------------------------------------------------------------- criteria
MkCriteria(n, t, k, mp, b) ==
    [neighborhood |-> n, undervaluationThreshold |-> t, maxResults |-> k,
     maxPrice |-> mp, bedrooms |-> b]

\* the requests the model submits
Criteria ==
    { MkCriteria("soho", 7, 1, 2000, 2),
      MkCriteria("upper-east-side", 3, 2, 0, 0),
      MkCriteria("riverdale", 7, 2, 2000, 0),
      MkCriteria("soho", 3, 0, 0, 2) }

\* ------------------------------------------------------ fetchFromStreetEasy
\* What one provider call and its valuation can do: the request fails (timeout,
\* non-2xx, malformed payload), or it answers with a list of listings, whose
\* valuation batch either answers or fails as well.
FetchOutcomes ==
    { [kind |-> "error", listings |-> <<>>, claudeOk |-> FALSE] }
    \cup { [kind |-> "ok", listings |-> r, claudeOk |-> b] :
             r \in ProviderAnswers, b \in BOOLEAN }

\* analyzePropertyBatchWithClaude: the listings whose discount reaches the
\* threshold; a failed batch qualifies nothing
Qualifying(listings, threshold, claudeOk) ==
    IF claudeOk
    THEN SelectSeq(listings, LAMBDA l : l.discount_percent >= threshold)
    ELSE <<>>

\* fetchFromStreetEasy(params, threshold): every error is caught inside and
\* becomes an empty result that still counts one provider call.  Of the
\* statistics it returns the model keeps the four counts; claudeTokens and
\* claudeCost are summed by the callers in the same way and decide nothing.
fetchFromStreetEasy(threshold, o) ==
    IF o.kind = "error" \/ o.listings = <<>>
    THEN [properties |-> <<>>, apiCalls |-> 1, totalFetched |-> 0,
          totalAnalyzed |-> 0, claudeApiCalls |-> 0]
    ELSE [properties |-> Qualifying(o.listings, threshold, o.claudeOk),
          apiCalls |-> 1, totalFetched |-> Len(o.listings),
          totalAnalyzed |-> Len(o.listings), claudeApiCalls |-> 1]

\* ------------------------------------------------ fetchWithThresholdFallback
thresholdSteps == <<5, 4, 3, 2, 1>>

\* mutant of ThresholdsOf: every lowered threshold is kept, whatever its value
ThresholdsUnfiltered(p) ==
    <<p.undervaluationThreshold>>
    \o [i \in 1..Len(thresholdSteps) |-> p.undervaluationThreshold - thresholdSteps[i]]

\* the candidate thresholds: the original one, then original - step for every
\* step that leaves at least 1
ThresholdsOf(p) ==
    <<p.undervaluationThreshold>>
    \o SelectSeq([i \in 1..Len(thresholdSteps) |-> p.undervaluationThreshold - thresholdSteps[i]],
                 LAMBDA t : t >= 1)

\* the accumulator of the loop before its first attempt (usedSimilarFallback
\* and similarFallbackMessage are the two properties startSmartSearch adds to
\* the returned object later; the message is an optional field)
ThresholdStart(p) ==
    [properties |-> <<>>, thresholdUsed |-> p.undervaluationThreshold,
     thresholdLowered |-> FALSE, apiCalls |-> 0, claudeApiCalls |-> 0,
     usedSimilarFallback |-> FALSE, similarFallbackMessage |-> <<>>]

\* the same accumulator with the two listing counts the loop sums as well.
\* Nothing in the pipeline reads them, so the runs of startSmartSearch carry
\* the accumulator without them; a call of fetchWithThresholdFallback on its
\* own carries this one.
ThresholdStartCounting(p) ==
    [properties |-> <<>>, thresholdUsed |-> p.undervaluationThreshold,
     thresholdLowered |-> FALSE, apiCalls |-> 0, totalFetched |-> 0,
     totalAnalyzed |-> 0, claudeApiCalls |-> 0, usedSimilarFallback |-> FALSE,
     similarFallbackMessage |-> <<>>]

\* totalFetched += results.totalFetched; totalAnalyzed += results.totalAnalyzed
SumListingCounts(acc, res) ==
    IF "totalFetched" \in DOMAIN acc
    THEN [acc EXCEPT !.totalFetched = @ + res.totalFetched,
                     !.totalAnalyzed = @ + res.totalAnalyzed]
    ELSE acc

\* mutant of ThresholdStep: only the attempt that found something is counted
ThresholdStepCountsFinding(p, acc, threshold, res) ==
    IF Len(res.properties) > 0
    THEN [SumListingCounts(acc, res)
            EXCEPT !.apiCalls = @ + res.apiCalls,
                   !.claudeApiCalls = @ + res.claudeApiCalls,
                   !.thresholdUsed = threshold,
                   !.thresholdLowered = (threshold < p.undervaluationThreshold),
                   !.properties = res.properties]
    ELSE acc

\* mutant of ThresholdStep: the threshold of every attempt is recorded
ThresholdStepRecordsAll(p, acc, threshold, res) ==
    [SumListingCounts(acc, res)
         EXCEPT !.apiCalls = @ + res.apiCalls,
                !.claudeApiCalls = @ + res.claudeApiCalls,
                !.thresholdUsed = threshold,
                !.thresholdLowered = (threshold < p.undervaluationThreshold),
                !.properties = res.properties]

\* one pass of the loop body: sum the statistics, and on a non-empty result
\* record the threshold that produced it
ThresholdStep(p, acc, threshold, res) ==
    LET summed == [SumListingCounts(acc, res)
                      EXCEPT !.apiCalls = @ + res.apiCalls,
                             !.claudeApiCalls = @ + res.claudeApiCalls]
    IN  IF Len(res.properties) > 0
        THEN [summed EXCEPT !.thresholdUsed = threshold,
                            !.thresholdLowered = (threshold < p.undervaluationThreshold),
                            !.properties = res.properties]
        ELSE summed

\* ---------------------------------------------------- fetchSimilarListings
getSimilarNeighborhoods(n) ==
    CASE n = "soho" -> <<"tribeca", "nolita", "west-village", "east-village", "lower-east-side">>
      [] n = "tribeca" -> <<"soho", "financial-district", "west-village", "battery-park-city">>
      [] n = "west-village" -> <<"soho", "tribeca", "east-village", "chelsea", "meatpacking-district">>
      [] n = "east-village" -> <<"west-village", "lower-east-side", "nolita", "gramercy">>
      [] n = "lower-east-side" -> <<"east-village", "chinatown", "nolita", "two-bridges">>
      [] n = "nolita" -> <<"soho", "east-village", "lower-east-side", "little-italy">>
      [] n = "chelsea" -> <<"west-village", "gramercy", "flatiron", "meatpacking-district">>
      [] n = "gramercy" -> <<"chelsea", "east-village", "murray-hill", "flatiron">>
      [] n = "upper-west-side" -> <<"upper-east-side", "morningside-heights", "harlem", "lincoln-square">>
      [] n = "upper-east-side" -> <<"upper-west-side", "yorkville", "midtown-east">>
      [] n = "harlem" -> <<"morningside-heights", "upper-west-side", "washington-heights", "east-harlem">>
      [] n = "williamsburg" -> <<"greenpoint", "bushwick", "dumbo", "bedstuy">>
      [] n = "bushwick" -> <<"williamsburg", "bedstuy", "ridgewood", "east-williamsburg">>
      [] n = "park-slope" -> <<"prospect-heights", "gowanus", "carroll-gardens", "windsor-terrace">>
      [] n = "dumbo" -> <<"brooklyn-heights", "downtown-brooklyn", "williamsburg", "vinegar-hill">>
      [] n = "astoria" -> <<"long-island-city", "sunnyside", "woodside", "jackson-heights">>
      [] n = "long-island-city" -> <<"astoria", "sunnyside", "hunters-point">>
      [] OTHER -> <<"east-village", "lower-east-side", "chinatown">>

manhattanNeighborhoods == <<"east-village", "lower-east-side", "chinatown", "financial-district">>

\* multipliers, times ten
budgetMultipliers == <<12, 15, 20, 30, 50, 100>>
\* mutant of neighborhoodMultipliers: one more budget step for each area
neighborhoodMultipliersLonger(p) ==
    IF p.maxPrice # 0 THEN <<10, 12, 15, 20, 30>> ELSE <<10>>

neighborhoodMultipliers(p) == IF p.maxPrice # 0 THEN <<10, 12, 15, 20>> ELSE <<10>>

\* Math.round((m - 1) * 100) for a multiplier m given times ten
BudgetIncreasePercent(m) == (m - 10) * 10

\* Math.round(maxPrice * m) for a multiplier m given times ten
ExpandedBudget(maxPrice, m) == (maxPrice * m + 5) \div 10

\* one provider+valuation pass of a strategy: the strategy, the area searched,
\* the multiplier (times ten) on maxPrice, the threshold handed to
\* fetchFromStreetEasy, how many listings the strategy keeps, and the
\* budgetIncreasePercent it writes on them (the budget strategy only)
MkAttempt(s, area, m, t, k) ==
    [strategy |-> s, area |-> area, multiplier |-> m, threshold |-> t, take |-> k,
     budgetIncreasePercent |-> IF s = "progressive_budget_increase"
                               THEN <<BudgetIncreasePercent(m)>> ELSE <<>>]

KeepCount(p) == IF p.maxResults # 0 THEN p.maxResults ELSE 1

BudgetAttempts(p) ==
    IF p.maxPrice # 0
    THEN [i \in 1..Len(budgetMultipliers) |->
            MkAttempt("progressive_budget_increase", p.neighborhood,
                      budgetMultipliers[i], 1, KeepCount(p))]
    ELSE <<>>

BedroomAttempts(p) ==
    IF p.bedrooms # 0
    THEN << MkAttempt("bedroom_flexibility", p.neighborhood, 20,
                      p.undervaluationThreshold, KeepCount(p)) >>
    ELSE <<>>

RECURSIVE NeighborhoodAttempts(_, _)
NeighborhoodAttempts(p, areas) ==
    IF areas = <<>> THEN <<>>
    ELSE [i \in 1..Len(neighborhoodMultipliers(p)) |->
            MkAttempt("similar_neighborhood", Head(areas), neighborhoodMultipliers(p)[i],
                      p.undervaluationThreshold, KeepCount(p))]
         \o NeighborhoodAttempts(p, Tail(areas))

\* mutant of LastResortAttempts: the strategy keeps as many listings as the
\* other strategies do
LastResortKeepsWanted(p) ==
    [i \in 1..Len(manhattanNeighborhoods) |->
        MkAttempt("last_resort", manhattanNeighborhoods[i], 0, p.undervaluationThreshold,
                  KeepCount(p))]

LastResortAttempts(p) ==
    [i \in 1..Len(manhattanNeighborhoods) |->
        MkAttempt("last_resort", manhattanNeighborhoods[i], 0, p.undervaluationThreshold, 1)]

\* the copy of the criteria a pass hands to fetchFromStreetEasy: the area of
\* the pass, maxPrice multiplied (or cleared: multiplier 0), and bedrooms
\* cleared by the bedroom and the last-resort strategy (0 is "not given")
AttemptParams(p, a) ==
    [p EXCEPT !.neighborhood = a.area,
              !.maxPrice = IF a.multiplier = 0 \/ p.maxPrice = 0 THEN 0
                           ELSE ExpandedBudget(p.maxPrice, a.multiplier),
              !.bedrooms = IF a.strategy \in {"bedroom_flexibility", "last_resort"}
                           THEN 0 ELSE p.bedrooms]

\* api_server_1's budget strategy marks its listings with isSimilarFallback
\* and fallbackStrategy only
BudgetAttemptsUnmarked(p) ==
    [i \in 1..Len(BudgetAttempts(p)) |->
        [BudgetAttempts(p)[i] EXCEPT !.budgetIncreasePercent = <<>>]]

\* mutant of AttemptsOf: the bedroom strategy is tried before the budget one
AttemptsBedroomFirst(v, p) ==
    IF v = "part_000"
    THEN BedroomAttempts(p) \o BudgetAttempts(p)
         \o NeighborhoodAttempts(p, getSimilarNeighborhoods(p.neighborhood))
         \o LastResortAttempts(p)
    ELSE IF v = "api_server_1" THEN BudgetAttemptsUnmarked(p)
    ELSE <<>>

\* the passes fetchSimilarListings makes, in the order it makes them, as long
\* as none finds anything.  api_server_1 has the budget strategy only;
\* api_server_2 has no body at all (see SimilarReturnsUndefined).
AttemptsOf(v, p) ==
    IF v = "part_000"
    THEN BudgetAttempts(p) \o BedroomAttempts(p)
         \o NeighborhoodAttempts(p, getSimilarNeighborhoods(p.neighborhood))
         \o LastResortAttempts(p)
    ELSE IF v = "api_server_1" THEN BudgetAttemptsUnmarked(p)
    ELSE <<>>

\* api_server_2's fetchSimilarListings is a placeholder without a return
\* statement: it resolves to undefined
SimilarReturnsUndefined(v) == v = "api_server_2"

\* Array.prototype.sort with a numeric comparator is stable: SortByKey sorts
\* a sequence of <<key, item>> pairs by ascending key, ties in their old order
RECURSIVE InsertByKey(_, _)
InsertByKey(x, s) ==
    IF s = <<>> THEN <<x>>
    ELSE IF x[1] < Head(s)[1] THEN <<x>> \o s
    ELSE <<Head(s)>> \o InsertByKey(x, Tail(s))

RECURSIVE SortByKey(_)
SortByKey(s) ==
    IF s = <<>> THEN <<>>
    ELSE InsertByKey(s[Len(s)], SortByKey(SubSeq(s, 1, Len(s) - 1)))

Items(s) == [i \in 1..Len(s) |-> s[i][2]]

\* sort((a, b) => price(a) - price(b))
SortByPrice(props) ==
    Items(SortByKey([i \in 1..Len(props) |-> <<props[i].price, props[i]>>]))

\* mutant of SortByDiscountDesc: smallest discount first
SortByDiscountAsc(props) ==
    Items(SortByKey([i \in 1..Len(props) |-> <<DiscountOf(props[i]), props[i]>>]))

\* sort((a, b) => (b.discount_percent || 0) - (a.discount_percent || 0))
SortByDiscountDesc(props) ==
    Items(SortByKey([i \in 1..Len(props) |-> <<0 - DiscountOf(props[i]), props[i]>>]))

\* mutant of Slice0: nothing is cut off
SliceNothing(s, n) == s

\* Array.prototype.slice(0, n): a negative n counts from the end
Slice0(s, n) ==
    LET last == IF n >= 0 THEN (IF n < Len(s) THEN n ELSE Len(s))
                ELSE (IF Len(s) + n > 0 THEN Len(s) + n ELSE 0)
    IN  SubSeq(s, 1, last)

\* mutant of SimilarTake: the listings kept are returned as they were fetched
SimilarTakeUnmarked(a, props) == Slice0(SortByPrice(props), a.take)

\* a successful pass: cheapest first, keep the first `take`, annotate each
SimilarTake(a, props) ==
    LET sorted == SortByPrice(props)
        kept == Slice0(sorted, a.take)
    IN  [i \in 1..Len(kept) |->
            [kept[i] EXCEPT !.fallbackStrategy = a.strategy,
                            !.budgetIncreasePercent = a.budgetIncreasePercent]]

\* ----------------------------------------------------------- combineResults
combineResults(cacheResults, newResults, maxResults) ==
    LET seen == { cacheResults[i].listing_id : i \in 1..Len(cacheResults) }
        fresh == SelectSeq(newResults, LAMBDA r : r.listing_id \notin seen)
        combined == cacheResults
                    \o [i \in 1..Len(fresh) |-> [fresh[i] EXCEPT !.source = "fresh"]]
    IN  Slice0(SortByDiscountDesc(combined), maxResults)

\* ================================================================== state
VARIABLES
    variant,        \* which build of the engine runs
    activeJobs,     \* this.activeJobs: job id -> Job, or NoJob
    jobResults,     \* this.jobResults: job id -> JobResult, or NoResult
    handler,        \* the job whose POST handler is on the stack, or NULL
    responded,      \* job id -> the 202 response with this id has been sent
    pc,             \* job id -> the await startSmartSearch is suspended at
    params,         \* job id -> the criteria startSmartSearch was called with
    fetchRecord,    \* job id -> the local fetchRecord (NULL until created)
    cacheAnswered,  \* job id -> smartCacheSearch has returned its list
    cacheResults,   \* job id -> the local cacheResults
    se,             \* job id -> the local streetEasyResults / loop accumulator
    idx,            \* job id -> position in the threshold or relaxation loop
    providerCalls,  \* job id -> calls to the listings provider that returned
    valuationCalls, \* job id -> calls to the valuation service that returned
    cacheCalls,     \* job id -> calls of smartCacheSearch made
    combineCall,    \* a call of combineResults on its own: arguments and result
    refused,        \* how many requests were answered 400 or 401
    providerStub,   \* the one answer of a provider that always answers the same
    thresholdCall,  \* a call of fetchWithThresholdFallback on its own: its
                    \* argument, its loop index and accumulator, and what its
                    \* attempts returned
    scoringCall,    \* a call of analyzePropertiesWithClaude on its own: how
                    \* many listings, where its loop stands, and the batches
                    \* and delays so far
    batchCall       \* a call of analyzePropertyBatchWithClaude on its own: its
                    \* arguments, the service's answer and what it returned

vars == <<variant, activeJobs, jobResults, handler, responded, pc, params,
          fetchRecord, cacheAnswered, cacheResults, se, idx, providerCalls,
          valuationCalls, cacheCalls, combineCall, refused, providerStub,
          thresholdCall, scoringCall, batchCall>>

\* what the steps of the engine leave alone
aside == <<combineCall, providerStub, thresholdCall, scoringCall, batchCall>>

\* the locals of one run of startSmartSearch
locals == <<params, fetchRecord, cacheAnswered, cacheResults, se, idx>>
calls == <<providerCalls, valuationCalls, cacheCalls>>
http == <<handler, responded, refused>>

NoJob == [status |-> "absent"]
NoResult == [source |-> "absent"]
NoCriteria == MkCriteria("", 0, 0, 0, 0)

Terminal == {"completed", "failed"}

\* the Job object startSmartSearch builds before anything else
NewJob(p) ==
    [status |-> "processing", progress |-> 0,
     message |-> "Starting smart cache-first search...",
     originalThreshold |-> p.undervaluationThreshold,
     cacheHits |-> 0, thresholdUsed |-> 0, thresholdLowered |-> FALSE,
     error |-> NULL]

\* mutant of SetJob: one Job object shared by every registered job
SetJobShared(jobs, j, job) ==
    [i \in DOMAIN jobs |-> IF i = j \/ jobs[i].status # "absent" THEN job ELSE jobs[i]]

\* a write to this job's entry: activeJobs.set(jobId, job), and every
\* assignment to a field of the local `job`, which is that same object
SetJob(jobs, j, job) == [jobs EXCEPT ![j] = job]

\* mutant of SetResult: the result also replaces every result stored before
SetResultOverAll(results, j, result) ==
    [i \in DOMAIN results |->
        IF i = j \/ results[i].source # "absent" THEN result ELSE results[i]]

\* jobResults.set(jobId, result)
SetResult(results, j, result) == [results EXCEPT ![j] = result]

MkResult(source, p, props, cacheHits, newly, tUsed, tLowered, similar) ==
    [source |-> source, parameters |-> p, properties |-> props,
     summary |-> [totalFound |-> Len(props), cacheHits |-> cacheHits,
                  newlyScraped |-> newly, thresholdUsed |-> tUsed,
                  thresholdLowered |-> tLowered, usedSimilarFallback |-> similar]]

\* GET /api/jobs/:jobId
GetJobStatus(j) ==
    IF activeJobs[j] = NoJob THEN [code |-> 404]
    ELSE [code |-> 200, status |-> activeJobs[j].status,
          progress |-> activeJobs[j].progress, error |-> activeJobs[j].error]

\* GET /api/results/:jobId
GetJobResults(j) ==
    IF jobResults[j] = NoResult THEN [code |-> 404]
    ELSE [code |-> 200, data |-> jobResults[j]]

\* no call of combineResults on its own is under way
NoCombineCall ==
    [cacheResults |-> <<>>, newResults |-> <<>>, maxResults |-> 0,
     returned |-> FALSE, result |-> <<>>]

\* the engine before any request
InitEngine ==
    /\ variant \in Variants
    /\ activeJobs = [j \in JobIds |-> NoJob]
    /\ jobResults = [j \in JobIds |-> NoResult]
    /\ handler = NULL
    /\ responded = [j \in JobIds |-> FALSE]
    /\ pc = [j \in JobIds |-> "idle"]
    /\ params = [j \in JobIds |-> NoCriteria]
    /\ fetchRecord = [j \in JobIds |-> NULL]
    /\ cacheAnswered = [j \in JobIds |-> FALSE]
    /\ cacheResults = [j \in JobIds |-> <<>>]
    /\ se = [j \in JobIds |-> ThresholdStart(NoCriteria)]
    /\ idx = [j \in JobIds |-> 0]
    /\ providerCalls = [j \in JobIds |-> 0]
    /\ cacheCalls = [j \in JobIds |-> 0]
    /\ valuationCalls = [j \in JobIds |-> 0]
    /\ refused = 0

\* the provider is not tied to one answer
NoStub == [kind |-> "none", listings |-> <<>>, claudeOk |-> FALSE]

NoThresholdCall ==
    [params |-> NoCriteria, i |-> 0, acc |-> ThresholdStartCounting(NoCriteria),
     attempted |-> 0, fetched |-> 0, analyzed |-> 0, valued |-> 0,
     returned |-> FALSE]

NoScoringCall ==
    [n |-> 0, i |-> 0, at |-> "done", calls |-> 0, delays |-> 0, scored |-> 0,
     largest |-> 0]

NoBatchCall ==
    [properties |-> <<>>, threshold |-> 1, answered |-> FALSE, analysis |-> <<>>,
     returned |-> FALSE, qualifyingProperties |-> <<>>]

Init ==
    /\ InitEngine
    /\ combineCall = NoCombineCall
    /\ providerStub = NoStub
    /\ thresholdCall = NoThresholdCall
    /\ scoringCall = NoScoringCall
    /\ batchCall = NoBatchCall

\* mutant of StartSync: the job is not registered before the first await
StartSyncUnregistered(j, p) ==
    /\ activeJobs' = activeJobs
    /\ params' = [params EXCEPT ![j] = p]
    /\ pc' = [pc EXCEPT ![j] = "createFetchRecord"]

\* ------------------------------------------------- POST /api/search/smart
\* The handler calls startSmartSearch, which runs to its first await (the
\* call of createFetchRecord) and hands back a promise the handler drops.
StartSync(j, p) ==
    /\ activeJobs' = SetJob(activeJobs, j, NewJob(p))
    /\ params' = [params EXCEPT ![j] = p]
    /\ pc' = [pc EXCEPT ![j] = "createFetchRecord"]

\* A request field that is absent is the empty string for neighborhood: the
\* handler tests !neighborhood, which holds for both.
PostSmartSearch(j, p) ==
    /\ handler = NULL
    /\ pc[j] = "idle"
    /\ p.neighborhood # ""
    /\ StartSync(j, p)
    /\ handler' = j
    /\ UNCHANGED <<variant, jobResults, responded, refused, fetchRecord,
                   cacheAnswered, cacheResults, se, idx, calls>>

\* ... or answers 400 when the request names no neighborhood
RefuseSmartSearch(p) ==
    /\ handler = NULL
    /\ p.neighborhood = ""
    /\ refused < MaxRefused
    /\ refused' = refused + 1
    /\ UNCHANGED <<variant, activeJobs, jobResults, handler, responded, pc, locals,
                   calls>>

\* ... and then sends 202 with the job id.  Nothing else runs in between: the
\* continuations of startSmartSearch wait for the handler to leave the stack.
SendAccepted(j) ==
    /\ handler = j
    /\ handler' = NULL
    /\ responded' = [responded EXCEPT ![j] = TRUE]
    /\ UNCHANGED <<variant, activeJobs, jobResults, refused, pc, locals, calls>>

\* --------------------------------------------- POST /api/trigger/full-search
\* Math.min(parseInt(searchParams.maxResults || 1), 5)
FullSearchMaxResults(k) == IF k = 0 THEN 1 ELSE IF k < 5 THEN k ELSE 5

\* the handler answers 401 without the API key
RefuseFullSearch ==
    /\ handler = NULL
    /\ refused < MaxRefused
    /\ refused' = refused + 1
    /\ UNCHANGED <<variant, activeJobs, jobResults, handler, responded, pc, locals,
                   calls>>

\* with the key it starts the job on the request body as it came, whatever
\* the body holds; the 202 that follows is SendAccepted
PostFullSearch(j, p) ==
    /\ handler = NULL
    /\ pc[j] = "idle"
    /\ StartSync(j, [p EXCEPT !.maxResults = FullSearchMaxResults(@)])
    /\ handler' = j
    /\ UNCHANGED <<variant, jobResults, responded, refused, fetchRecord,
                   cacheAnswered, cacheResults, se, idx, calls>>

\* ------------------------------------------------------ startSmartSearch
\* mutant of Catch: the catch block stores an error JobResult for the pollers
CatchStoresResult(j) ==
    /\ activeJobs' = SetJob(activeJobs, j,
                            [activeJobs[j] EXCEPT !.status = "failed", !.error = "error"])
    /\ jobResults' = SetResult(jobResults, j,
                               MkResult("failed", params[j], <<>>, 0, 0, 0, FALSE, FALSE))
    /\ pc' = [pc EXCEPT ![j] = IF fetchRecord[j] # NULL THEN "updateFailed" ELSE "done"]
    /\ UNCHANGED <<variant, http, locals, calls>>

\* mutant of Catch: the catch block resets the progress
CatchResetsProgress(j) ==
    /\ activeJobs' = SetJob(activeJobs, j,
                            [activeJobs[j] EXCEPT !.status = "failed", !.error = "error",
                                                  !.progress = 0])
    /\ pc' = [pc EXCEPT ![j] = IF fetchRecord[j] # NULL THEN "updateFailed" ELSE "done"]
    /\ UNCHANGED <<variant, jobResults, http, locals, calls>>

\* mutant of Catch: the error is swallowed and the job is left as it was
CatchLeavesProcessing(j) ==
    /\ pc' = [pc EXCEPT ![j] = "done"]
    /\ UNCHANGED <<variant, activeJobs, jobResults, http, locals, calls>>

\* the catch block: mark the job failed, keep everything else of it, and tell
\* the audit record if there is one
Catch(j) ==
    /\ activeJobs' = SetJob(activeJobs, j,
                            [activeJobs[j] EXCEPT !.status = "failed", !.error = "error"])
    /\ pc' = [pc EXCEPT ![j] = IF fetchRecord[j] # NULL THEN "updateFailed" ELSE "done"]
    /\ UNCHANGED <<variant, jobResults, http, locals, calls>>

\* createFetchRecord raised
CreateFetchRecordRaises(j) ==
    /\ handler = NULL
    /\ pc[j] = "createFetchRecord"
    /\ Catch(j)

\* createFetchRecord returned: progress 20, then the cache is asked
CreateFetchRecordReturns(j) ==
    /\ handler = NULL
    /\ pc[j] = "createFetchRecord"
    /\ fetchRecord' = [fetchRecord EXCEPT ![j] = j]
    /\ activeJobs' = SetJob(activeJobs, j,
                            [activeJobs[j] EXCEPT !.progress = 20,
                                !.message = "Checking cache for existing matches..."])
    /\ pc' = [pc EXCEPT ![j] = "smartCacheSearch"]
    /\ cacheCalls' = [cacheCalls EXCEPT ![j] = @ + 1]
    /\ UNCHANGED <<variant, jobResults, http, params, cacheAnswered, cacheResults,
                   se, idx, providerCalls, valuationCalls>>

\* smartCacheSearch raised
CacheSearchRaises(j) ==
    /\ handler = NULL
    /\ pc[j] = "smartCacheSearch"
    /\ Catch(j)

\* the test that ends the job on the cache alone
EnoughCached(cached, p) == Len(cached) >= p.maxResults

\* smartCacheSearch returned: either the cache alone is enough, and the job is
\* marked completed before the audit record is written, or the threshold
\* search starts with its first provider call
CacheSearchReturns(j, cached) ==
    /\ handler = NULL
    /\ pc[j] = "smartCacheSearch"
    /\ cacheAnswered' = [cacheAnswered EXCEPT ![j] = TRUE]
    /\ cacheResults' = [cacheResults EXCEPT ![j] = cached]
    /\ IF EnoughCached(cached, params[j])
       THEN /\ activeJobs' = SetJob(activeJobs, j,
                    [activeJobs[j] EXCEPT !.cacheHits = Len(cached),
                        !.status = "completed", !.progress = 100,
                        !.message = "Found properties from cache (instant results!)"])
            /\ pc' = [pc EXCEPT ![j] = "updateCacheOnly"]
            /\ UNCHANGED <<se, idx>>
       ELSE /\ activeJobs' = SetJob(activeJobs, j,
                    [activeJobs[j] EXCEPT !.cacheHits = Len(cached),
                        !.progress = 40,
                        !.message = "Found cached properties, fetching more from StreetEasy..."])
            /\ pc' = [pc EXCEPT ![j] = "threshold"]
            /\ se' = [se EXCEPT ![j] = ThresholdStart(params[j])]
            /\ idx' = [idx EXCEPT ![j] = 1]
    /\ UNCHANGED <<variant, jobResults, http, params, fetchRecord, calls>>

\* the combine step and the completion that follows it without an await:
\* progress 90, combineResults, thresholdUsed/Lowered, status completed,
\* progress 100; the audit record is written next.  r is streetEasyResults.
Combine(j, r) ==
    /\ activeJobs' = SetJob(activeJobs, j,
            [activeJobs[j] EXCEPT !.thresholdUsed = r.thresholdUsed,
                !.thresholdLowered = r.thresholdLowered,
                !.status = "completed", !.progress = 100,
                !.message = IF r.usedSimilarFallback
                            THEN "Found similar properties"
                            ELSE "Found total properties"])
    /\ se' = [se EXCEPT ![j] = r]
    /\ pc' = [pc EXCEPT ![j] = "updateFinal"]
    /\ idx' = idx

\* fetchSimilarListings found nothing: the job is marked completed and the
\* audit record is written next
NoResults(j, r) ==
    /\ activeJobs' = SetJob(activeJobs, j,
            [activeJobs[j] EXCEPT !.status = "completed", !.progress = 100,
                !.message = "No properties found matching criteria or similar alternatives"])
    /\ se' = [se EXCEPT ![j] = r]
    /\ pc' = [pc EXCEPT ![j] = "updateNoResults"]
    /\ idx' = idx

\* mutant of NeedsSimilar: the cache is not looked at
NeedsSimilarWhateverCached(r, cached) == Len(r.properties) = 0

\* the test that sends the job to fetchSimilarListings
NeedsSimilar(r, cached) == Len(r.properties) = 0 /\ Len(cached) = 0

\* fetchWithThresholdFallback returned r
AfterThreshold(j, r) ==
    IF NeedsSimilar(r, cacheResults[j])
    THEN /\ activeJobs' = SetJob(activeJobs, j,
                [activeJobs[j] EXCEPT !.progress = 70,
                    !.message = "No direct matches found, searching for similar listings..."])
         /\ se' = [se EXCEPT ![j] = r]
         /\ pc' = [pc EXCEPT ![j] = "similar"]
         /\ idx' = [idx EXCEPT ![j] = 1]
    ELSE Combine(j, r)

\* mutant of ThresholdLoopContinues: the loop has no break
ThresholdLoopExhausts(p, i, res) == i < Len(ThresholdsOf(p))

\* the loop of fetchWithThresholdFallback goes on after an attempt exactly
\* when that attempt found nothing and a threshold is left
ThresholdLoopContinues(p, i, res) == Len(res.properties) = 0 /\ i < Len(ThresholdsOf(p))

\* mutant of ThresholdAttemptReturns: the attempts are launched two at a time
\* and their results are awaited together
ThresholdAttemptsPaired(j, o) ==
    /\ handler = NULL
    /\ pc[j] = "threshold"
    /\ LET p == params[j]
           t == ThresholdsOf(p)[idx[j]]
           res == fetchFromStreetEasy(t, o)
           acc == ThresholdStep(p, ThresholdStep(p, se[j], t, res), t, res)
       IN  /\ providerCalls' = [providerCalls EXCEPT ![j] = @ + 2]
           /\ valuationCalls' = [valuationCalls EXCEPT ![j] = @ + 2 * res.claudeApiCalls]
           /\ IF Len(res.properties) = 0 /\ idx[j] + 1 < Len(ThresholdsOf(p))
              THEN /\ se' = [se EXCEPT ![j] = acc]
                   /\ idx' = [idx EXCEPT ![j] = @ + 2]
                   /\ UNCHANGED <<activeJobs, pc>>
              ELSE AfterThreshold(j, acc)
    /\ UNCHANGED <<variant, jobResults, http, params, fetchRecord, cacheAnswered,
                   cacheResults, cacheCalls>>

\* one provider+valuation pass of fetchWithThresholdFallback returned
ThresholdAttemptReturns(j, o) ==
    /\ handler = NULL
    /\ pc[j] = "threshold"
    /\ LET p == params[j]
           t == ThresholdsOf(p)[idx[j]]
           res == fetchFromStreetEasy(t, o)
           acc == ThresholdStep(p, se[j], t, res)
       IN  /\ providerCalls' = [providerCalls EXCEPT ![j] = @ + 1]
           /\ valuationCalls' = [valuationCalls EXCEPT ![j] = @ + res.claudeApiCalls]
           /\ IF ThresholdLoopContinues(p, idx[j], res)
              THEN /\ se' = [se EXCEPT ![j] = acc]
                   /\ idx' = [idx EXCEPT ![j] = @ + 1]
                   /\ UNCHANGED <<activeJobs, pc>>
              ELSE AfterThreshold(j, acc)
    /\ UNCHANGED <<variant, jobResults, http, params, fetchRecord, cacheAnswered,
                   cacheResults, cacheCalls>>

\* api_server_2: fetchSimilarListings resolved to undefined, and reading
\* similarResults.properties throws a TypeError inside the try block
SimilarListingsUndefined(j) ==
    /\ handler = NULL
    /\ pc[j] = "similar"
    /\ SimilarReturnsUndefined(variant)
    /\ Catch(j)

\* fetchSimilarListings had no strategy to try (api_server_1 without maxPrice)
SimilarListingsNothingToTry(j) ==
    /\ handler = NULL
    /\ pc[j] = "similar"
    /\ ~SimilarReturnsUndefined(variant)
    /\ AttemptsOf(variant, params[j]) = <<>>
    /\ NoResults(j, se[j])
    /\ UNCHANGED <<variant, jobResults, http, params, fetchRecord, cacheAnswered,
                   cacheResults, calls>>

\* the fallbackMessage of a pass that found listings: which template, and
\* what it is filled with.  part_000 fills in the original criteria and the
\* relaxation applied; api_server_1 returns one fixed sentence.
FallbackMessage(v, p, a) ==
    [template |-> a.strategy,
     fills |-> IF v # "part_000" THEN <<>>
               ELSE CASE a.strategy = "progressive_budget_increase" ->
                            <<p.neighborhood, p.maxPrice>>
                      [] a.strategy = "bedroom_flexibility" ->
                            <<p.bedrooms, p.neighborhood>>
                      [] a.strategy = "similar_neighborhood" ->
                            <<p.neighborhood, a.area>>
                      [] OTHER -> <<p.neighborhood>>]

\* what fetchSimilarListings returns from the pass a whose fetchFromStreetEasy
\* returned res with listings
SimilarResults(v, p, a, res) ==
    [properties |-> SimilarTake(a, res.properties),
     fallbackMessage |-> <<FallbackMessage(v, p, a)>>,
     fallbackStrategy |-> a.strategy,
     apiCalls |-> res.apiCalls, claudeApiCalls |-> res.claudeApiCalls]

\* what it returns when every pass found nothing
SimilarNothing ==
    [properties |-> <<>>, fallbackMessage |-> <<>>, fallbackStrategy |-> "none",
     apiCalls |-> 0, claudeApiCalls |-> 0]

\* mutant of WithSimilar: the listings are replaced and the flag is not set
WithSimilarUnflagged(r, props, res) ==
    [r EXCEPT !.properties = props,
              !.similarFallbackMessage = res.fallbackMessage,
              !.apiCalls = @ + res.apiCalls,
              !.claudeApiCalls = @ + res.claudeApiCalls]

\* streetEasyResults after the relaxation path replaced its listings
WithSimilar(r, props, res) ==
    [r EXCEPT !.properties = props, !.usedSimilarFallback = TRUE,
              !.similarFallbackMessage = res.fallbackMessage,
              !.apiCalls = @ + res.apiCalls,
              !.claudeApiCalls = @ + res.claudeApiCalls]

\* mutant of SimilarAttemptReturns: the pass writes its relaxed fields into
\* the criteria object instead of into a copy
SimilarAttemptOverwritesCriteria(j, o) ==
    /\ handler = NULL
    /\ pc[j] = "similar"
    /\ ~SimilarReturnsUndefined(variant)
    /\ idx[j] <= Len(AttemptsOf(variant, params[j]))
    /\ LET attempts == AttemptsOf(variant, params[j])
           a == attempts[idx[j]]
           res == fetchFromStreetEasy(a.threshold, o)
           similar == SimilarResults(variant, params[j], a, res)
       IN  /\ providerCalls' = [providerCalls EXCEPT ![j] = @ + 1]
           /\ valuationCalls' = [valuationCalls EXCEPT ![j] = @ + res.claudeApiCalls]
           /\ params' = [params EXCEPT ![j] = AttemptParams(params[j], a)]
           /\ IF Len(res.properties) > 0
              THEN IF Len(similar.properties) = 0
                   THEN NoResults(j, se[j])
                   ELSE Combine(j, WithSimilar(se[j], similar.properties, similar))
              ELSE NoResults(j, se[j])
    /\ UNCHANGED <<variant, jobResults, http, fetchRecord, cacheAnswered,
                   cacheResults, cacheCalls>>

\* one provider+valuation pass of fetchSimilarListings returned
SimilarAttemptReturns(j, o) ==
    /\ handler = NULL
    /\ pc[j] = "similar"
    /\ ~SimilarReturnsUndefined(variant)
    /\ idx[j] <= Len(AttemptsOf(variant, params[j]))
    /\ LET attempts == AttemptsOf(variant, params[j])
           a == attempts[idx[j]]
           res == fetchFromStreetEasy(a.threshold, o)
           similar == SimilarResults(variant, params[j], a, res)
       IN  /\ providerCalls' = [providerCalls EXCEPT ![j] = @ + 1]
           /\ valuationCalls' = [valuationCalls EXCEPT ![j] = @ + res.claudeApiCalls]
           /\ IF Len(res.properties) > 0
              THEN IF Len(similar.properties) = 0
                   THEN NoResults(j, se[j])
                   ELSE Combine(j, WithSimilar(se[j], similar.properties, similar))
              ELSE IF idx[j] < Len(attempts)
                   THEN /\ idx' = [idx EXCEPT ![j] = @ + 1]
                        /\ UNCHANGED <<activeJobs, pc, se>>
                   ELSE NoResults(j, se[j])
    /\ UNCHANGED <<variant, jobResults, http, params, fetchRecord, cacheAnswered,
                   cacheResults, cacheCalls>>

\* -------------------------------------------------- the audit-record writes
\* updateFetchRecord raised on one of the three completion paths: the await
\* sits inside the try block, so the catch block runs
AuditUpdateRaises(j) ==
    /\ handler = NULL
    /\ pc[j] \in {"updateCacheOnly", "updateNoResults", "updateFinal"}
    /\ Catch(j)

\* updateFetchRecord returned on the cache-only path: the JobResult is stored
StoreCacheOnly(j) ==
    /\ handler = NULL
    /\ pc[j] = "updateCacheOnly"
    /\ jobResults' = SetResult(jobResults, j,
            MkResult("cache_only", params[j], cacheResults[j], Len(cacheResults[j]), 0,
                     params[j].undervaluationThreshold, FALSE, FALSE))
    /\ pc' = [pc EXCEPT ![j] = "done"]
    /\ UNCHANGED <<variant, activeJobs, http, locals, calls>>

\* ... on the no-results path
StoreNoResults(j) ==
    /\ handler = NULL
    /\ pc[j] = "updateNoResults"
    /\ jobResults' = SetResult(jobResults, j,
            MkResult("no_results", params[j], <<>>, Len(cacheResults[j]), 0,
                     params[j].undervaluationThreshold, FALSE, FALSE))
    /\ pc' = [pc EXCEPT ![j] = "done"]
    /\ UNCHANGED <<variant, activeJobs, http, locals, calls>>

\* ... on the combined path
StoreCombined(j) ==
    /\ handler = NULL
    /\ pc[j] = "updateFinal"
    /\ jobResults' = SetResult(jobResults, j,
            MkResult(IF se[j].usedSimilarFallback THEN "similar_listings" ELSE "cache_and_fresh",
                     params[j],
                     combineResults(cacheResults[j], se[j].properties, params[j].maxResults),
                     Len(cacheResults[j]), Len(se[j].properties),
                     se[j].thresholdUsed, se[j].thresholdLowered, se[j].usedSimilarFallback))
    /\ pc' = [pc EXCEPT ![j] = "done"]
    /\ UNCHANGED <<variant, activeJobs, http, locals, calls>>

\* the audit write of the catch block returned or raised: either way the
\* inner try/catch swallows it and startSmartSearch ends
FailureRecorded(j) ==
    /\ handler = NULL
    /\ pc[j] = "updateFailed"
    /\ pc' = [pc EXCEPT ![j] = "done"]
    /\ UNCHANGED <<variant, activeJobs, jobResults, http, locals, calls>>

\* the calls to collaborators job j has made and not yet got the result of:
\* the call startSmartSearch, or the search it runs, is suspended at
Awaited(j) ==
    CASE pc[j] = "createFetchRecord" -> {"createFetchRecord"}
      [] pc[j] = "smartCacheSearch" -> {"smartCacheSearch"}
      [] pc[j] = "threshold" -> {"fetchFromStreetEasy"}
      [] pc[j] = "similar" ->
            IF SimilarReturnsUndefined(variant) \/ AttemptsOf(variant, params[j]) = <<>>
            THEN {} ELSE {"fetchFromStreetEasy"}
      [] pc[j] \in {"updateCacheOnly", "updateNoResults", "updateFinal", "updateFailed"} ->
            {"updateFetchRecord"}
      [] OTHER -> {}

\* ------------------------------------------------------------------- Next
\* every step that belongs to job j, with the requests and the collaborators'
\* answers drawn from the given sets
JobStep(j, criteria, cacheAnswers, fetchOutcomes) ==
    \/ \E p \in criteria : PostSmartSearch(j, p)
    \/ SendAccepted(j)
    \/ CreateFetchRecordReturns(j)
    \/ CreateFetchRecordRaises(j)
    \/ \E cached \in cacheAnswers : CacheSearchReturns(j, cached)
    \/ CacheSearchRaises(j)
    \/ \E o \in fetchOutcomes : ThresholdAttemptReturns(j, o)
    \/ SimilarListingsUndefined(j)
    \/ SimilarListingsNothingToTry(j)
    \/ \E o \in fetchOutcomes : SimilarAttemptReturns(j, o)
    \/ AuditUpdateRaises(j)
    \/ StoreCacheOnly(j)
    \/ StoreNoResults(j)
    \/ StoreCombined(j)
    \/ FailureRecorded(j)

\* one job, every request and every answer of the collaborators
Next == JobStep("job_a", Criteria, CacheAnswers, FetchOutcomes) /\ UNCHANGED aside

Spec == Init /\ [][Next]_vars

\* Two jobs whose steps interleave freely.  To keep the product of the two
\* pipelines small the requests are the two shortest ones (one threshold, the
\* shortest relaxation), the cache answers with at most one listing, and a
\* provider call either fails or finds one listing that is then valued.
ConcurrentCriteria ==
    { MkCriteria("upper-east-side", 1, 1, 0, 0), MkCriteria("soho", 1, 0, 0, 0) }
ConcurrentCacheAnswers == { s \in CacheAnswers : Len(s) <= 1 }
ConcurrentFetchOutcomes ==
    { o \in FetchOutcomes : o.kind = "error" \/ (Len(o.listings) = 1 /\ o.claudeOk) }

NextConcurrent ==
    /\ \E j \in JobIds : JobStep(j, ConcurrentCriteria, ConcurrentCacheAnswers,
                                 ConcurrentFetchOutcomes)
    /\ UNCHANGED aside

SpecConcurrent == Init /\ [][NextConcurrent]_vars

\* Fairness for the liveness claims: a handler on the stack runs on, and every
\* call to a collaborator returns or raises, so a continuation of a started
\* job that can run does run.  Nothing forces a request to arrive.
Continue(j) ==
    \/ SendAccepted(j)
    \/ CreateFetchRecordReturns(j)
    \/ CreateFetchRecordRaises(j)
    \/ \E cached \in CacheAnswers : CacheSearchReturns(j, cached)
    \/ CacheSearchRaises(j)
    \/ \E o \in FetchOutcomes : ThresholdAttemptReturns(j, o)
    \/ SimilarListingsUndefined(j)
    \/ SimilarListingsNothingToTry(j)
    \/ \E o \in FetchOutcomes : SimilarAttemptReturns(j, o)
    \/ AuditUpdateRaises(j)
    \/ StoreCacheOnly(j)
    \/ StoreNoResults(j)
    \/ StoreCombined(j)
    \/ FailureRecorded(j)

SpecLive == Spec /\ WF_vars(Continue("job_a") /\ UNCHANGED aside)

\* One job with every request of Criteria, whose provider answers with at
\* most one listing: a pass fails, finds nothing, finds a listing that does
\* not qualify, or finds one that does.  The passes of fetchSimilarListings
\* are followed one by one under this specification.
RelaxationFetchOutcomes == { o \in FetchOutcomes : Len(o.listings) <= 1 }

NextRelaxation ==
    /\ JobStep("job_a", Criteria, ConcurrentCacheAnswers, RelaxationFetchOutcomes)
    /\ UNCHANGED aside

SpecRelaxation == Init /\ [][NextRelaxation]_vars

\* One job with every request of Criteria, whose cache lookup returns the
\* empty list, as the shipped smartCacheSearch does, and whose provider fails
\* or answers with two listings that are then valued: the passes of
\* fetchSimilarListings that have a choice of listings to keep.
PairFetchOutcomes ==
    { o \in FetchOutcomes : o.kind = "error" \/ (Len(o.listings) = 2 /\ o.claudeOk) }

NextPairs ==
    /\ JobStep("job_a", Criteria, { <<>> }, PairFetchOutcomes)
    /\ UNCHANGED aside

SpecPairs == Init /\ [][NextPairs]_vars

\* One job served by a provider and a valuation service that answer every
\* call of the job in the same way: the answer is drawn once, before the
\* request arrives.  The cache is empty, as the shipped smartCacheSearch is.
InitDeterministic ==
    /\ InitEngine
    /\ combineCall = NoCombineCall
    /\ providerStub \in FetchOutcomes
    /\ thresholdCall = NoThresholdCall
    /\ scoringCall = NoScoringCall
    /\ batchCall = NoBatchCall

NextDeterministic ==
    /\ JobStep("job_a", Criteria, { <<>> }, { providerStub })
    /\ UNCHANGED aside

SpecDeterministic == InitDeterministic /\ [][NextDeterministic]_vars

\* ------------------------------------------------------ the entry points
\* One job, started through either entry point, with requests that name a
\* neighborhood and requests that do not; the collaborators answer as in
\* SpecConcurrent.
EntryCriteria ==
    ConcurrentCriteria
    \cup { [p EXCEPT !.neighborhood = ""] : p \in ConcurrentCriteria }

NextEntry ==
    /\ \/ JobStep("job_a", EntryCriteria, ConcurrentCacheAnswers, ConcurrentFetchOutcomes)
       \/ \E p \in EntryCriteria : RefuseSmartSearch(p)
       \/ RefuseFullSearch
       \/ \E p \in EntryCriteria : PostFullSearch("job_a", p)
    /\ UNCHANGED aside

SpecEntry == Init /\ [][NextEntry]_vars

\* ------------------------------------------------- combineResults on its own
\* combineResults is a pure method: it is called here with every pair of
\* lists over listings that repeat ids within a list and across the lists,
\* tie on the discount, and lack a discount, and with every maxResults.
CombineCached ==
    { MkListing(1, 8, 30, "cache"), MkListing(2, 4, 10, "cache"),
      MkUnscored(4, 20, "cache") }
CombineFresh ==
    { MkListing(1, 9, 20, "raw"), MkListing(3, 4, 10, "raw"),
      MkListing(5, 0, 40, "raw") }

CombineArguments ==
    { [cacheResults |-> c, newResults |-> n, maxResults |-> k,
       returned |-> FALSE, result |-> <<>>] :
        c \in SeqsUpTo(CombineCached, MaxCombined),
        n \in SeqsUpTo(CombineFresh, MaxCombined),
        k \in 0..MaxWanted }

InitCombine ==
    /\ InitEngine
    /\ variant = "part_000"
    /\ combineCall \in CombineArguments
    /\ providerStub = NoStub
    /\ thresholdCall = NoThresholdCall
    /\ scoringCall = NoScoringCall
    /\ batchCall = NoBatchCall

CombineReturns ==
    /\ ~combineCall.returned
    /\ combineCall' = [combineCall EXCEPT
            !.returned = TRUE,
            !.result = combineResults(combineCall.cacheResults, combineCall.newResults,
                                      combineCall.maxResults)]
    /\ UNCHANGED <<variant, activeJobs, jobResults, http, pc, locals, calls,
                   providerStub, thresholdCall, scoringCall, batchCall>>

NextCombine == CombineReturns

SpecCombine == InitCombine /\ [][NextCombine]_vars

\* ----------------------------------- fetchWithThresholdFallback on its own
\* The function is called with some criteria; each step is one pass of its
\* loop, whose fetchFromStreetEasy answers with any outcome.  Beside the
\* function's own accumulator the call keeps what its attempts returned: how
\* many there were, and the counts each of them reported.
InitThreshold ==
    /\ InitEngine
    /\ combineCall = NoCombineCall
    /\ providerStub = NoStub
    /\ scoringCall = NoScoringCall
    /\ batchCall = NoBatchCall
    /\ \E p \in Criteria :
          thresholdCall = [NoThresholdCall EXCEPT !.params = p, !.i = 1,
                                                 !.acc = ThresholdStartCounting(p)]

ThresholdCallAttempt(o) ==
    /\ ~thresholdCall.returned
    /\ LET p == thresholdCall.params
           i == thresholdCall.i
           t == ThresholdsOf(p)[i]
           res == fetchFromStreetEasy(t, o)
       IN  thresholdCall' =
               [thresholdCall EXCEPT
                   !.acc = ThresholdStep(p, @, t, res),
                   !.attempted = @ + 1,
                   !.fetched = @ + res.totalFetched,
                   !.analyzed = @ + res.totalAnalyzed,
                   !.valued = @ + res.claudeApiCalls,
                   !.i = IF ThresholdLoopContinues(p, i, res) THEN i + 1 ELSE i,
                   !.returned = ~ThresholdLoopContinues(p, i, res)]
    /\ UNCHANGED <<variant, activeJobs, jobResults, http, pc, locals, calls,
                   combineCall, providerStub, scoringCall, batchCall>>

NextThreshold == \E o \in FetchOutcomes : ThresholdCallAttempt(o)

SpecThreshold == InitThreshold /\ [][NextThreshold]_vars

\* ---------------------------------- analyzePropertiesWithClaude on its own
\* The function is called with n listings.  Its loop is at "batch" while a
\* call of analyzePropertyBatchWithClaude is awaited, at "delay" while
\* delay(1000) is awaited, and at "done" when it has returned; i is the loop
\* variable.  The call keeps how many batches were sent, how many delays were
\* awaited, how many listings went out in all and the largest batch.
batchSize == 50

Smaller(a, b) == IF a < b THEN a ELSE b

\* listings.slice(i, i + batchSize).length
BatchLength(i, n) == Smaller(batchSize, n - i)

\* mutant of DelayFollows: a delay after every batch
DelayAlways(i, n) == TRUE

\* if (i + batchSize < listings.length) await this.delay(1000)
DelayFollows(i, n) == i + batchSize < n

InitScoring ==
    /\ InitEngine
    /\ combineCall = NoCombineCall
    /\ providerStub = NoStub
    /\ thresholdCall = NoThresholdCall
    /\ batchCall = NoBatchCall
    /\ \E n \in 0..MaxScored :
          scoringCall = [NoScoringCall EXCEPT !.n = n,
                                             !.at = IF 0 < n THEN "batch" ELSE "done"]

\* a batch call returned (it catches its own errors, so it always returns)
BatchReturns ==
    /\ scoringCall.at = "batch"
    /\ LET i == scoringCall.i
           n == scoringCall.n
       IN  scoringCall' =
               [scoringCall EXCEPT
                   !.calls = @ + 1,
                   !.scored = @ + BatchLength(i, n),
                   !.largest = IF BatchLength(i, n) > @ THEN BatchLength(i, n) ELSE @,
                   !.i = IF DelayFollows(i, n) THEN i ELSE i + batchSize,
                   !.at = IF DelayFollows(i, n) THEN "delay" ELSE "done"]
    /\ UNCHANGED <<variant, activeJobs, jobResults, http, pc, locals, calls,
                   combineCall, providerStub, thresholdCall, batchCall>>

\* the delay elapsed: i += batchSize and the loop test
DelayElapses ==
    /\ scoringCall.at = "delay"
    /\ scoringCall' =
           [scoringCall EXCEPT
               !.delays = @ + 1,
               !.i = @ + batchSize,
               !.at = IF scoringCall.i + batchSize < scoringCall.n THEN "batch" ELSE "done"]
    /\ UNCHANGED <<variant, activeJobs, jobResults, http, pc, locals, calls,
                   combineCall, providerStub, thresholdCall, batchCall>>

NextScoring == BatchReturns \/ DelayElapses

SpecScoring == InitScoring /\ [][NextScoring]_vars

\* -------------------------------- analyzePropertyBatchWithClaude on its own
\* The function is called with a batch of listings (named by their ids) and a
\* threshold.  The request to the service either fails (or its text does not
\* parse), which the function catches, or is answered with a list of records,
\* each naming a 1-based propertyIndex; the list may leave indexes out, repeat
\* them or name one beyond the batch.
BatchDiscounts == {0, 3, 9}
BatchThresholds == {1, 3, 7}

AnalysisRecords ==
    { [propertyIndex |-> k, percentBelowMarket |-> d, score |-> 80, grade |-> "B"] :
        k \in 1..(MaxBatch + 1), d \in BatchDiscounts }

\* mutant of MissingAnalysis: a listing without a record passes every threshold
MissingAnalysisQualifies ==
    [percentBelowMarket |-> 100, score |-> 0, grade |-> "F"]

\* the record used for a listing the answer has no record for
MissingAnalysis ==
    [percentBelowMarket |-> 0, score |-> 0, grade |-> "F"]

\* analysis.find((x) => x.propertyIndex === i) || { ...MissingAnalysis }
FindAnalysis(analysis, i) ==
    LET hits == SelectSeq(analysis, LAMBDA x : x.propertyIndex = i)
    IN  IF hits = <<>> THEN MissingAnalysis
        ELSE [percentBelowMarket |-> hits[1].percentBelowMarket,
              score |-> hits[1].score, grade |-> hits[1].grade]

\* properties.map((prop, i) => ...)
ScoreBatch(properties, analysis) ==
    [i \in 1..Len(properties) |->
        [listing_id |-> properties[i],
         discount_percent |-> FindAnalysis(analysis, i).percentBelowMarket,
         score |-> FindAnalysis(analysis, i).score,
         grade |-> FindAnalysis(analysis, i).grade]]

\* .filter((prop) => prop.discount_percent >= threshold)
analyzePropertyBatchWithClaude(properties, analysis, threshold) ==
    SelectSeq(ScoreBatch(properties, analysis),
              LAMBDA prop : prop.discount_percent >= threshold)

InitBatch ==
    /\ InitEngine
    /\ combineCall = NoCombineCall
    /\ providerStub = NoStub
    /\ thresholdCall = NoThresholdCall
    /\ scoringCall = NoScoringCall
    /\ \E n \in 0..MaxBatch, t \in BatchThresholds :
          batchCall = [NoBatchCall EXCEPT !.properties = [i \in 1..n |-> i],
                                         !.threshold = t]

\* the service answered and its text parsed
BatchAnswered(analysis) ==
    /\ ~batchCall.answered /\ ~batchCall.returned
    /\ batchCall' = [batchCall EXCEPT !.answered = TRUE, !.analysis = analysis]
    /\ UNCHANGED <<variant, activeJobs, jobResults, http, pc, locals, calls,
                   combineCall, providerStub, thresholdCall, scoringCall>>

\* ... and the function returns what qualifies
BatchCallReturns ==
    /\ batchCall.answered /\ ~batchCall.returned
    /\ batchCall' = [batchCall EXCEPT
            !.returned = TRUE,
            !.qualifyingProperties =
                analyzePropertyBatchWithClaude(batchCall.properties, batchCall.analysis,
                                               batchCall.threshold)]
    /\ UNCHANGED <<variant, activeJobs, jobResults, http, pc, locals, calls,
                   combineCall, providerStub, thresholdCall, scoringCall>>

\* the request failed or the text did not parse: the catch returns nothing
BatchCallFails ==
    /\ ~batchCall.answered /\ ~batchCall.returned
    /\ batchCall' = [batchCall EXCEPT !.returned = TRUE, !.qualifyingProperties = <<>>]
    /\ UNCHANGED <<variant, activeJobs, jobResults, http, pc, locals, calls,
                   combineCall, providerStub, thresholdCall, scoringCall>>

NextBatch ==
    \/ \E analysis \in SeqsUpTo(AnalysisRecords, MaxBatch) : BatchAnswered(analysis)
    \/ BatchCallReturns
    \/ BatchCallFails

SpecBatch == InitBatch /\ [][NextBatch]_vars

\* ================================================================== claims
Status(j) == activeJobs[j].status
Registered(j) == activeJobs[j] # NoJob
Stored(j) == jobResults[j] # NoResult
CompletionWrites == {"updateCacheOnly", "updateNoResults", "updateFinal"}

\* C1: whenever the cache lookup returned at least maxResults listings, the
\* job makes no call to the listings provider and none to the valuation
\* service, does not fail, and ends completed with a JobResult of source
\* cache_only.
C1_CacheOnlyCompletes ==
    \A j \in JobIds :
        (cacheAnswered[j] /\ Len(cacheResults[j]) >= params[j].maxResults)
        => /\ providerCalls[j] = 0
           /\ valuationCalls[j] = 0
           /\ Status(j) # "failed"
           /\ pc[j] = "done" => (Status(j) = "completed" /\ Stored(j)
                                 /\ jobResults[j].source = "cache_only")

\* the case of C1: the cache answered with enough listings and the run ended
C1_Reached ==
    \E j \in JobIds :
        /\ cacheAnswered[j] /\ Len(cacheResults[j]) >= params[j].maxResults
        /\ Len(cacheResults[j]) > 0
        /\ pc[j] = "done"

\* every candidate threshold and every relaxation pass of job j has been
\* tried and none found a listing, on an empty cache
NothingFound(j) ==
    /\ cacheAnswered[j] /\ cacheResults[j] = <<>>
    /\ pc[j] \in {"updateNoResults", "updateFailed", "done"}
    /\ se[j].properties = <<>>
    /\ se[j].apiCalls = Len(ThresholdsOf(params[j]))
    /\ providerCalls[j] = Len(ThresholdsOf(params[j])) + Len(AttemptsOf(variant, params[j]))

\* C2: if the cache is empty and neither the threshold search nor any
\* relaxation strategy finds a listing, the job does not fail: it is
\* completed and ends with a JobResult of source no_results and no properties.
C2_NothingFoundCompletes ==
    \A j \in JobIds :
        NothingFound(j)
        => /\ Status(j) = "completed"
           /\ pc[j] = "done" => (Stored(j) /\ jobResults[j].source = "no_results"
                                 /\ jobResults[j].properties = <<>>)

\* C3: once a job is failed it stays failed, carries a non-null error, and no
\* JobResult is stored under its id, in that state and in every later one.
C3_FailedStoresNoResult ==
    [][\A j \in JobIds :
          (Status(j) = "failed" \/ activeJobs'[j].status = "failed")
          => /\ activeJobs'[j].status = "failed"
             /\ activeJobs'[j].error # NULL
             /\ jobResults'[j] = NoResult]_vars

\* a job failed by the audit-record creation, its run over
C3_Reached ==
    \E j \in JobIds : Status(j) = "failed" /\ fetchRecord[j] = NULL /\ pc[j] = "done"

\* C4: a status of completed or failed never changes again.
C4_TerminalAbsorbing ==
    [][\A j \in JobIds : Status(j) \in Terminal => activeJobs'[j].status = Status(j)]_vars

\* C5: a raising audit write never fails the job: a job that has reached the
\* audit write of a completion path stays completed and ends with its
\* JobResult stored, and a job that has reached the audit write of the failure
\* path stays failed.
C5_AuditFailureSwallowed ==
    [][\A j \in JobIds :
          /\ pc[j] \in CompletionWrites
             => /\ activeJobs'[j].status = "completed"
                /\ pc'[j] = "done" => jobResults'[j] # NoResult
          /\ pc[j] = "updateFailed" => activeJobs'[j].status = "failed"]_vars

\* C6: the step that fails a job leaves its progress as it was, and a failed
\* job never shows progress 100.
C6_FailedBelow100 ==
    [][\A j \in JobIds :
          activeJobs'[j].status = "failed"
          => /\ Registered(j) => activeJobs'[j].progress = activeJobs[j].progress
             /\ activeJobs'[j].progress # 100]_vars

\* C7: the progress of a job is one of 0, 20, 40, 70, 90, 100 and never
\* decreases.
C7_ProgressMonotone ==
    [][\A j \in JobIds :
          activeJobs'[j] # NoJob
          => /\ activeJobs'[j].progress \in {0, 20, 40, 70, 90, 100}
             /\ Registered(j) => activeJobs'[j].progress >= activeJobs[j].progress]_vars

\* a job failed half way, after its progress had been raised
C7_Reached ==
    \E j \in JobIds : Status(j) = "failed" /\ activeJobs[j].progress = 70

\* C8: when the 202 response with a job id is sent, the job is registered
\* with status processing and progress 0 and its pipeline has not finished;
\* from then on a status poll for that id never answers 404.
C8_StartReturnsRegistered ==
    /\ [][\A j \in JobIds :
            (responded'[j] /\ ~responded[j])
            => /\ GetJobStatus(j)' = [code |-> 200, status |-> "processing",
                                      progress |-> 0, error |-> NULL]
               /\ pc'[j] # "done"]_vars
    /\ [](\A j \in JobIds : responded[j] => GetJobStatus(j).code = 200)

\* the response was sent and the pipeline is still at its first await
C8_Reached ==
    \E j \in JobIds : responded[j] /\ pc[j] = "createFetchRecord"

\* C9: a step that is not a step of job j (it leaves j's position in its
\* pipeline and its response as they were) changes neither j's Job entry nor
\* j's JobResult entry.
C9_JobsIsolated ==
    [][\A j \in JobIds :
          (pc'[j] = pc[j] /\ idx'[j] = idx[j] /\ responded'[j] = responded[j])
          => (activeJobs'[j] = activeJobs[j] /\ jobResults'[j] = jobResults[j])]_vars

\* two jobs in flight together, at different stages
C9_Reached ==
    \E j, k \in JobIds :
        /\ j # k
        /\ Status(j) = "processing" /\ activeJobs[j].progress = 70
        /\ Status(k) = "completed" /\ pc[k] = "updateFinal"

\* C10: every started job eventually ends its run in a terminal status.
C10_JobTerminates ==
    \A j \in JobIds :
        (pc[j] # "idle") ~> (pc[j] = "done" /\ Status(j) \in Terminal)

\* a run that went through every threshold and every relaxation pass
C10_Reached ==
    \E j \in JobIds :
        /\ pc[j] = "done" /\ Status(j) = "completed"
        /\ providerCalls[j] = Len(ThresholdsOf(params[j])) + Len(AttemptsOf(variant, params[j]))
        /\ providerCalls[j] > 30

\* fetchWithThresholdFallback of job j returns in this step
ThresholdSearchReturns(j) == pc[j] = "threshold" /\ pc'[j] # "threshold"

C12_AtMostWanted ==
    combineCall.returned => Len(combineCall.result) <= combineCall.maxResults

\* a call whose merged list was longer than maxResults, and was cut
C12_Reached ==
    /\ combineCall.returned
    /\ Len(combineCall.cacheResults) + Len(combineCall.newResults) = 4
    /\ combineCall.maxResults = 2
    /\ Len(combineCall.result) = 2

\* the listing ids of a list, in order
IdsOf(list) == [i \in 1..Len(list) |-> list[i].listing_id]
NoRepeatedId(list) ==
    \A a, b \in 1..Len(list) : a # b => list[a].listing_id # list[b].listing_id

\* C13: the list combineResults returns never holds two entries with the same
\* listing id, also when a fresh list or a cache list repeats an id.
C13_NoRepeatedId ==
    combineCall.returned => NoRepeatedId(combineCall.result)

\* the discount an entry is ranked by
SortedByDiscountDesc(list) ==
    \A a, b \in 1..Len(list) : a < b => DiscountOf(list[a]) >= DiscountOf(list[b])

\* list[a] and list[b] stand in `from` in the same order (the source field,
\* which combineResults rewrites, left aside)
SameListing(x, y) ==
    /\ x.listing_id = y.listing_id /\ x.price = y.price
    /\ x.scored = y.scored /\ x.discount_percent = y.discount_percent
InOrderOf(x, y, from) ==
    \E a, b \in 1..Len(from) : a < b /\ SameListing(from[a], x) /\ SameListing(from[b], y)

\* C14: the list combineResults returns is sorted by descending discount, a
\* missing discount counting as 0; among entries of equal discount no fresh
\* entry stands before a cache entry, and two entries of the same origin
\* stand in the order they had in their input list.
C14_SortedStable ==
    combineCall.returned
    => LET out == combineCall.result
       IN  /\ SortedByDiscountDesc(out)
           /\ \A a, b \in 1..Len(out) :
                 (a < b /\ DiscountOf(out[a]) = DiscountOf(out[b]))
                 => /\ ~(out[a].source = "fresh" /\ out[b].source = "cache")
                    /\ (out[a].source = "cache" /\ out[b].source = "cache")
                       => InOrderOf(out[a], out[b], combineCall.cacheResults)
                    /\ (out[a].source = "fresh" /\ out[b].source = "fresh")
                       => InOrderOf(out[a], out[b], combineCall.newResults)

\* a result where a fresh entry was ranked above a cache entry, an unscored
\* cache entry ties with a fresh entry of discount 0 and stands before it
C14_Reached ==
    /\ combineCall.returned
    /\ IdsOf(combineCall.cacheResults) = <<4, 2>>
    /\ IdsOf(combineCall.newResults) = <<5, 3>>
    /\ IdsOf(combineCall.result) = <<2, 3, 4>>

\* a pass of fetchSimilarListings of job j finds listings in this step, and
\* fetchSimilarListings returns them
SimilarSearchSucceeds(j) ==
    pc[j] = "similar" /\ pc'[j] = "updateFinal"

\* C15: when a pass of the budget strategy finds listings, it is the pass of
\* the first multiplier of 1.2, 1.5, 2, 3, 5, 10 that found any (one pass was
\* made per multiplier up to it, each on round(maxPrice * multiplier)), and
\* every listing returned carries the strategy progressive_budget_increase
\* and budgetIncreasePercent = round((multiplier - 1) * 100): 50 for the
\* multiplier 1.5, which takes a maxPrice of 2000 to 3000.
C15_BudgetExpansionAnnotated ==
    [][\A j \in JobIds :
          (SimilarSearchSucceeds(j) /\ params[j].maxPrice # 0
           /\ idx[j] <= Len(budgetMultipliers))
          => LET m == budgetMultipliers[idx[j]]
             IN  /\ providerCalls'[j] = se[j].apiCalls + idx[j]
                 /\ \A i \in 1..Len(se'[j].properties) :
                       /\ se'[j].properties[i].fallbackStrategy
                          = "progressive_budget_increase"
                       /\ se'[j].properties[i].budgetIncreasePercent
                          = <<BudgetIncreasePercent(m)>>
                 /\ (params[j].maxPrice = 2000 /\ ExpandedBudget(2000, m) = 3000)
                    => /\ m = 15
                       /\ \A i \in 1..Len(se'[j].properties) :
                             se'[j].properties[i].budgetIncreasePercent = <<50>>]_vars

\* C16: the JobResult of a job id is written at most once: a stored JobResult
\* is the same in every later state, and the step that stores it is the last
\* step of a run that leaves the job completed, with one of the four sources.
C16_ResultWrittenOnce ==
    [][\A j \in JobIds :
          /\ Stored(j) => jobResults'[j] = jobResults[j]
          /\ (~Stored(j) /\ jobResults'[j] # NoResult)
             => /\ activeJobs'[j].status = "completed"
                /\ pc'[j] = "done"
                /\ jobResults'[j].source \in {"cache_only", "cache_and_fresh",
                                              "similar_listings", "no_results"}]_vars

\* two jobs have stored their results, one at an empty-result completion and
\* one at a successful one
C16_Reached ==
    \E j, k \in JobIds :
        /\ Stored(j) /\ jobResults[j].source = "no_results"
        /\ Stored(k) /\ jobResults[k].source = "cache_and_fresh"

\* the outcomes in which the provider call, or the valuation call after it,
\* failed
FailedOutcomes ==
    { o \in FetchOutcomes : o.kind = "error" \/ (o.listings # <<>> /\ ~o.claudeOk) }

\* a pass of job j whose provider or valuation call failed returns in this
\* step: the job is not failed, the pass adds no listing, and the search
\* either goes on to its next pass or is over
FailedAttemptDegrades(j) ==
    \A o \in FailedOutcomes :
        (ThresholdAttemptReturns(j, o) \/ SimilarAttemptReturns(j, o))
        => /\ activeJobs'[j].status # "failed"
           /\ se'[j].properties = <<>>
           /\ \/ pc'[j] = pc[j] /\ idx'[j] = idx[j] + 1
              \/ pc[j] = "threshold" /\ pc'[j] \in {"similar", "updateFinal"}
                 /\ idx[j] = Len(ThresholdsOf(params[j]))
              \/ pc[j] = "similar" /\ pc'[j] = "updateNoResults"
                 /\ idx[j] = Len(AttemptsOf(variant, params[j]))

\* C17: a provider call or a valuation call that fails inside one pass never
\* fails the job: the pass counts as one without results, the search goes on
\* with the next threshold or strategy, and when the passes are used up the
\* job completes: no step taken while the job is in its threshold search or
\* in its relaxation search leaves it failed.
C17_ProviderFailureTolerated ==
    [][\A j \in JobIds :
          /\ FailedAttemptDegrades(j)
          /\ pc[j] \in {"threshold", "similar"} => activeJobs'[j].status # "failed"]_vars

\* C18: fetchSimilarListings is called only when the cache and the threshold
\* search both returned no listing.  When the cache returned a listing and
\* the threshold search returned none, the job is completed at once, no
\* provider call beyond those of the threshold search is ever made, and the
\* JobResult it stores holds cache listings only.
C18_RelaxationOnlyWhenBothEmpty ==
    [][\A j \in JobIds :
          /\ (pc[j] # "similar" /\ pc'[j] = "similar")
             => /\ ThresholdSearchReturns(j)
                /\ cacheResults[j] = <<>>
                /\ se'[j].properties = <<>>
          /\ (ThresholdSearchReturns(j) /\ cacheResults[j] # <<>>
              /\ se'[j].properties = <<>>)
             => /\ pc'[j] = "updateFinal"
                /\ activeJobs'[j].status = "completed"
                /\ ~se'[j].usedSimilarFallback
          /\ cacheResults'[j] # <<>>
             => /\ pc'[j] # "similar"
                /\ providerCalls'[j] <= Len(ThresholdsOf(params'[j]))
                /\ (jobResults'[j] # NoResult /\ se'[j].properties = <<>>)
                   => \A i \in 1..Len(jobResults'[j].properties) :
                         jobResults'[j].properties[i].source = "cache"]_vars

\* the cache held one listing of the two wanted, every threshold was tried in
\* vain, and the job stored the cache listing as its result
C18_Reached ==
    \E j \in JobIds :
        /\ Len(cacheResults[j]) = 1 /\ params[j].maxResults = 2
        /\ se[j].properties = <<>>
        /\ providerCalls[j] = Len(ThresholdsOf(params[j]))
        /\ pc[j] = "done" /\ Stored(j)
        /\ jobResults[j].source = "cache_and_fresh"
        /\ jobResults[j].properties = cacheResults[j]

\* C19: a request that names no neighborhood creates no job on either entry
\* point: every job that is registered has a neighborhood in its criteria,
\* and a step that refuses a request leaves the job store and every pipeline
\* as they were.
C19_NoJobWithoutNeighborhood ==
    [][\A j \in JobIds :
          /\ (~Registered(j) /\ activeJobs'[j] # NoJob) => params'[j].neighborhood # ""
          /\ refused' # refused => (activeJobs' = activeJobs /\ pc' = pc)]_vars

\* the place of a strategy in the order of the spec
StrategyRank(strategy) ==
    CASE strategy = "progressive_budget_increase" -> 1
      [] strategy = "bedroom_flexibility" -> 2
      [] strategy = "similar_neighborhood" -> 3
      [] strategy = "last_resort" -> 4

\* the first strategy that applies to the criteria p
FirstStrategy(p) ==
    IF p.maxPrice # 0 THEN "progressive_budget_increase"
    ELSE IF p.bedrooms # 0 THEN "bedroom_flexibility"
    ELSE "similar_neighborhood"

\* C20: fetchSimilarListings starts with the first strategy that applies,
\* makes its passes one provider call at a time in the order budget
\* expansion, bedroom relaxation, neighborhood substitution, last resort
\* (multipliers ascending within a strategy), ends with the first pass that
\* finds listings, and once it has ended the job makes no provider call.
C20_StrategiesInOrder ==
    [][\A j \in JobIds :
          LET a == AttemptsOf(variant, params[j])
          IN  /\ (pc[j] # "similar" /\ pc'[j] = "similar" /\ a # <<>>)
                 => /\ idx'[j] = 1
                    /\ a[1].strategy = FirstStrategy(params[j])
              /\ (pc[j] = "similar" /\ pc'[j] = "similar" /\ idx'[j] # idx[j])
                 => /\ idx'[j] = idx[j] + 1
                    /\ providerCalls'[j] = providerCalls[j] + 1
                    /\ StrategyRank(a[idx'[j]].strategy) >= StrategyRank(a[idx[j]].strategy)
                    /\ (a[idx'[j]].strategy = a[idx[j]].strategy
                        /\ a[idx'[j]].area = a[idx[j]].area)
                       => a[idx'[j]].multiplier > a[idx[j]].multiplier
              /\ (pc[j] = "similar" /\ pc'[j] = "similar")
                 => \A o \in FetchOutcomes :
                       fetchFromStreetEasy(a[idx[j]].threshold, o).properties # <<>>
                       => ~SimilarAttemptReturns(j, o)
              /\ SimilarSearchSucceeds(j)
                 => providerCalls'[j] = se[j].apiCalls + idx[j]
              /\ pc[j] \in CompletionWrites \cup {"updateFailed", "done"}
                 => providerCalls'[j] = providerCalls[j]]_vars

\* the budget passes and the bedroom pass found nothing, a pass on a similar
\* neighborhood did, and the job ended with its listing
C20_Reached ==
    \E j \in JobIds :
        /\ params[j].maxPrice # 0 /\ params[j].bedrooms # 0
        /\ pc[j] = "done" /\ Stored(j)
        /\ jobResults[j].source = "similar_listings"
        /\ jobResults[j].properties # <<>>
        /\ jobResults[j].properties[1].fallbackStrategy = "similar_neighborhood"
        /\ providerCalls[j] > Len(ThresholdsOf(params[j])) + Len(budgetMultipliers) + 1

\* the threshold search of job j goes from one attempt to the next in this step
NextThresholdAttempt(j) ==
    pc[j] = "threshold" /\ pc'[j] = "threshold" /\ idx'[j] # idx[j]

\* C21: the thresholds fetchWithThresholdFallback attempts start at the
\* threshold of the criteria, and each is strictly lower than the one
\* attempted just before it.
C21_ThresholdsDecrease ==
    [][\A j \in JobIds :
          /\ (pc[j] # "threshold" /\ pc'[j] = "threshold")
             => ThresholdsOf(params'[j])[idx'[j]] = params'[j].undervaluationThreshold
          /\ NextThresholdAttempt(j)
             => /\ idx'[j] = idx[j] + 1
                /\ ThresholdsOf(params[j])[idx'[j]] < ThresholdsOf(params[j])[idx[j]]]_vars

\* C22: whenever the status poll of a job answers completed, the results
\* lookup for the same job id answers with its JobResult, not with 404.
C22_CompletedHasResult ==
    \A j \in JobIds :
        (GetJobStatus(j).code = 200 /\ GetJobStatus(j).status = "completed")
        => GetJobResults(j).code = 200

\* the outcomes of a pass at threshold t in which a listing qualifies
FindingOutcomes(t) ==
    { o \in FetchOutcomes : fetchFromStreetEasy(t, o).properties # <<>> }

\* C23: fetchWithThresholdFallback stops at the first attempt in which a
\* listing qualifies: it does not go on to another attempt after such a pass;
\* it returns the listings of that pass, with thresholdUsed the threshold of
\* the pass and thresholdLowered telling whether that is below the threshold
\* of the criteria; one provider call was made per attempt up to it, and the
\* job makes no provider or valuation call after it.
C23_StopsAtFirstFinding ==
    [][\A j \in JobIds :
          LET t == ThresholdsOf(params[j])[idx[j]]
          IN  /\ NextThresholdAttempt(j)
                 => \A o \in FindingOutcomes(t) : ~ThresholdAttemptReturns(j, o)
              /\ (ThresholdSearchReturns(j) /\ se'[j].properties # <<>>)
                 => /\ \E o \in FindingOutcomes(t) :
                          se'[j].properties = Qualifying(o.listings, t, o.claudeOk)
                    /\ se'[j].thresholdUsed = t
                    /\ se'[j].thresholdLowered = (t < params[j].undervaluationThreshold)
                    /\ providerCalls'[j] = idx[j]
                    /\ pc'[j] = "updateFinal"
              /\ pc[j] \in CompletionWrites \cup {"updateFailed", "done"}
                 => /\ providerCalls'[j] = providerCalls[j]
                    /\ valuationCalls'[j] = valuationCalls[j]]_vars

\* the search found its listings at its second attempt of six and stopped
C23_Reached ==
    \E j \in JobIds :
        /\ pc[j] = "updateFinal" /\ ~se[j].usedSimilarFallback
        /\ se[j].properties # <<>>
        /\ Len(ThresholdsOf(params[j])) = 6
        /\ providerCalls[j] = 2
        /\ se[j].thresholdUsed = ThresholdsOf(params[j])[2]

\* C24: served by a provider and a valuation service that answer every call
\* in the same way, a threshold search that found nothing at the threshold of
\* the criteria returns the largest lowered candidate threshold at which a
\* listing qualifies: no larger lowered candidate would have found one.
C24_LargestLoweredThreshold ==
    [][\A j \in JobIds :
          (ThresholdSearchReturns(j) /\ se'[j].properties # <<>> /\ idx[j] > 1)
          => \A k \in 2..Len(ThresholdsOf(params[j])) :
                fetchFromStreetEasy(ThresholdsOf(params[j])[k], providerStub).properties # <<>>
                => ThresholdsOf(params[j])[k] <= se'[j].thresholdUsed]_vars

\* C25: when no attempt of fetchWithThresholdFallback finds a qualifying
\* listing, every candidate threshold has been attempted and the search
\* returns no listing, thresholdUsed = the threshold of the criteria, and
\* thresholdLowered = false.
C25_NothingFoundKeepsThreshold ==
    [][\A j \in JobIds :
          (ThresholdSearchReturns(j) /\ se'[j].properties = <<>>)
          => /\ se'[j].thresholdUsed = params[j].undervaluationThreshold
             /\ se'[j].thresholdLowered = FALSE
             /\ idx[j] = Len(ThresholdsOf(params[j]))
             /\ providerCalls'[j] = Len(ThresholdsOf(params[j]))]_vars

\* six thresholds attempted in vain on an empty cache: the relaxation search
\* is about to start
C25_Reached ==
    \E j \in JobIds :
        /\ pc[j] = "similar" /\ idx[j] = 1
        /\ se[j].properties = <<>> /\ se[j].apiCalls = 6
        /\ se[j].thresholdUsed = 7 /\ ~se[j].thresholdLowered

\* a pass of fetchSimilarListings of job j returns in this step
RelaxationPassReturns(j) ==
    pc[j] = "similar" /\ providerCalls'[j] = providerCalls[j] + 1

\* C26: every pass of fetchSimilarListings, of whichever strategy, qualifies
\* its listings against the threshold 1, whatever the threshold of the
\* criteria: a pass in which the valuation reports a listing at 1% or more
\* finds that listing.
C26_RelaxationThresholdIsOne ==
    [][\A j \in JobIds :
          RelaxationPassReturns(j)
          => LET a == AttemptsOf(variant, params[j])[idx[j]]
             IN  /\ a.threshold = 1
                 /\ \A o \in FetchOutcomes :
                       (SimilarAttemptReturns(j, o)
                        /\ Qualifying(o.listings, 1, o.claudeOk) # <<>>)
                       => pc'[j] # "similar"]_vars

\* C27: a job has at most one call to a collaborator outstanding; a step
\* takes the result of at most one provider pass; and while pass number idx
\* of the threshold search or of the relaxation search is outstanding, the
\* results of all the passes before it are in, the next pass being number
\* idx + 1.
C27_OneCallAtATime ==
    [][\A j \in JobIds :
          /\ Cardinality(Awaited(j)) <= 1
          /\ providerCalls'[j] - providerCalls[j] \in {0, 1}
          /\ valuationCalls'[j] - valuationCalls[j] \in {0, 1}
          /\ pc[j] = "threshold" => providerCalls[j] = idx[j] - 1
          /\ (pc[j] = "similar" /\ Awaited(j) # {})
             => providerCalls[j] = se[j].apiCalls + idx[j] - 1
          /\ (pc[j] \in {"threshold", "similar"} /\ pc'[j] = pc[j]
              /\ providerCalls'[j] # providerCalls[j])
             => idx'[j] = idx[j] + 1]_vars

\* the third pass of the relaxation search is outstanding after six threshold
\* attempts
C27_Reached ==
    \E j \in JobIds :
        /\ pc[j] = "similar" /\ idx[j] = 3
        /\ Awaited(j) = {"fetchFromStreetEasy"}
        /\ providerCalls[j] = 8

\* C28: smartCacheSearch is called at most once for a job, a job whose run
\* is over has called it once, and no call to the provider or to the
\* valuation service is made for the job before the lookup has returned.
C28_CacheConsultedOnceFirst ==
    \A j \in JobIds :
        /\ cacheCalls[j] <= 1
        /\ (providerCalls[j] > 0 \/ valuationCalls[j] > 0 \/ pc[j] \in {"threshold", "similar"})
           => (cacheCalls[j] = 1 /\ cacheAnswered[j])
        /\ pc[j] = "done" => cacheCalls[j] = 1

\* listing l is known to satisfy the price, bedroom and area constraints of
\* the criteria p: it was returned for a request in the area and with the
\* bedroom count of p (the cache lookup, a threshold attempt or a budget pass,
\* which changes maxPrice only) and its price is within the budget of p
MeetsOriginal(l, p) ==
    /\ l.fallbackStrategy \in {"none", "progressive_budget_increase"}
    /\ (p.maxPrice = 0 \/ l.price <= p.maxPrice)

\* C29: a listing of a stored JobResult carries the fallback annotation
\* (isSimilarFallback and a strategy name) exactly when it does not satisfy
\* the price, bedroom and area constraints of the job's criteria.
C29_AnnotatedIffOffCriteria ==
    \A j \in JobIds :
        jobResults[j] # NoResult
        => \A i \in 1..Len(jobResults[j].properties) :
              LET l == jobResults[j].properties[i]
              IN  (l.fallbackStrategy # "none") <=> ~MeetsOriginal(l, jobResults[j].parameters)

\* C30: what fetchWithThresholdFallback returns as statistics are the sums
\* over all the thresholds it attempted, those that found nothing or failed
\* included: apiCalls is the number of attempts, and totalFetched,
\* totalAnalyzed and claudeApiCalls are the sums of what the attempts
\* reported.
C30_StatsAreSums ==
    thresholdCall.returned
    => /\ thresholdCall.acc.apiCalls = thresholdCall.attempted
       /\ thresholdCall.attempted = thresholdCall.i
       /\ thresholdCall.acc.totalFetched = thresholdCall.fetched
       /\ thresholdCall.acc.totalAnalyzed = thresholdCall.analyzed
       /\ thresholdCall.acc.claudeApiCalls = thresholdCall.valued

\* the call returned a listing after six attempts, of which some failed or
\* fetched nothing and some fetched listings that did not qualify
C30_Reached ==
    /\ thresholdCall.returned
    /\ thresholdCall.acc.properties # <<>>
    /\ thresholdCall.attempted = 6
    /\ thresholdCall.acc.apiCalls = 6
    /\ thresholdCall.acc.totalFetched = 5
    /\ thresholdCall.acc.claudeApiCalls = 3

\* the relaxation path supplied the listings of job j: fetchSimilarListings
\* ran after every threshold had been attempted, and what the job holds as
\* fresh listings carries the annotation of one of its passes
RelaxationSupplied(j) ==
    /\ providerCalls[j] > Len(ThresholdsOf(params[j]))
    /\ se[j].properties # <<>>
    /\ \A i \in 1..Len(se[j].properties) : se[j].properties[i].fallbackStrategy # "none"

\* C31: the JobResult stored at the end of the combine step is classified
\* similar_listings exactly when the relaxation path supplied the job's
\* listings, and cache_and_fresh exactly when it did not.
C31_ClassifiedByRelaxation ==
    [][\A j \in JobIds :
          (pc[j] = "updateFinal" /\ Stored(j)')
          => /\ jobResults'[j].source \in {"similar_listings", "cache_and_fresh"}
             /\ jobResults'[j].source = "similar_listings" <=> RelaxationSupplied(j)
             /\ jobResults'[j].source = "cache_and_fresh" <=> ~RelaxationSupplied(j)]_vars

\* both classes are stored: this one is a similar_listings result
C31_Reached ==
    \E j \in JobIds :
        /\ Stored(j) /\ jobResults[j].source = "similar_listings"
        /\ RelaxationSupplied(j) /\ Status(j) = "completed"

\* C32: a stored JobResult never holds more listings than the maxResults of
\* the job's criteria, whatever its source.
C32_ResultAtMostWanted ==
    \A j \in JobIds :
        Stored(j) => Len(jobResults[j].properties) <= jobResults[j].parameters.maxResults

\* the smallest price among the listings of s
MinPrice(s) ==
    CHOOSE m \in { s[i].price : i \in 1..Len(s) } :
        \A i \in 1..Len(s) : m <= s[i].price

\* C33: the passes of the last-resort strategy ask for the areas of its fixed
\* list in the order of the list, with bedrooms and maxPrice cleared; a pass
\* that finds nothing is followed by the next area, and the first pass that
\* finds listings returns exactly one of them, one of the smallest price,
\* annotated last_resort.
C33_LastResortCheapestOne ==
    [][\A j \in JobIds :
          (pc[j] = "similar" /\ providerCalls'[j] = providerCalls[j] + 1)
          => LET attempts == AttemptsOf(variant, params[j])
                 a == attempts[idx[j]]
                 k == idx[j] - (Len(attempts) - Len(manhattanNeighborhoods))
             IN  a.strategy = "last_resort"
                 => /\ k \in 1..Len(manhattanNeighborhoods)
                    /\ AttemptParams(params[j], a)
                         = [params[j] EXCEPT !.neighborhood = manhattanNeighborhoods[k],
                                             !.bedrooms = 0, !.maxPrice = 0]
                    /\ \A o \in FetchOutcomes :
                          SimilarAttemptReturns(j, o)
                          => LET found == fetchFromStreetEasy(a.threshold, o).properties
                             IN  IF found = <<>>
                                 THEN IF k < Len(manhattanNeighborhoods)
                                      THEN pc'[j] = "similar" /\ idx'[j] = idx[j] + 1
                                      ELSE pc'[j] = "updateNoResults"
                                 ELSE /\ pc'[j] = "updateFinal"
                                      /\ Len(se'[j].properties) = 1
                                      /\ se'[j].properties[1].fallbackStrategy = "last_resort"
                                      /\ se'[j].properties[1].price = MinPrice(found)
                                      /\ \E i \in 1..Len(found) :
                                            se'[j].properties[1].listing_id = found[i].listing_id]_vars

\* the second area of the last resort found two listings for a request of two
\* and the dearer one was dropped
C33_Reached ==
    \E j \in JobIds :
        /\ pc[j] = "updateFinal" /\ params[j].maxResults = 2
        /\ Len(se[j].properties) = 1
        /\ se[j].properties[1].fallbackStrategy = "last_resort"
        /\ se[j].properties[1].price = 10
        /\ AttemptsOf(variant, params[j])[idx[j]].area = manhattanNeighborhoods[2]

\* C34: fetchSimilarListings returns an object whose fallbackMessage is null
\* exactly when its listing list is empty, which is when no pass found
\* anything; a non-empty list comes with the message of the template of the
\* strategy whose pass found it, and that message is the one the job keeps.
C34_MessageIffListings ==
    [][\A j \in JobIds :
          /\ (pc[j] = "similar" /\ pc'[j] # "similar")
             => pc'[j] \in {"updateFinal", "updateNoResults"}
          /\ (pc[j] = "similar" /\ providerCalls'[j] # providerCalls[j])
             => \A o \in FetchOutcomes :
                   SimilarAttemptReturns(j, o)
                   => LET a == AttemptsOf(variant, params[j])[idx[j]]
                          res == fetchFromStreetEasy(a.threshold, o)
                          ret == IF res.properties # <<>>
                                 THEN SimilarResults(variant, params[j], a, res)
                                 ELSE SimilarNothing
                      IN  /\ ret.fallbackMessage = <<>> <=> ret.properties = <<>>
                          /\ ret.properties # <<>>
                             => /\ ret.fallbackMessage[1].template = a.strategy
                                /\ \A i \in 1..Len(ret.properties) :
                                      ret.properties[i].fallbackStrategy
                                         = ret.fallbackMessage[1].template
                                /\ pc'[j] = "updateFinal"
                                /\ se'[j].similarFallbackMessage = ret.fallbackMessage
                          /\ (ret.properties = <<>> /\ pc'[j] # "similar")
                             => /\ pc'[j] = "updateNoResults"
                                /\ idx[j] = Len(AttemptsOf(variant, params[j]))]_vars

\* ceil(n / batchSize)
BatchesNeeded(n) == (n + batchSize - 1) \div batchSize

\* C35: scoring n listings sends ceil(n/50) batches of at most 50 listings,
\* one at a time, every listing in one batch; the delay is awaited only when
\* a further batch follows it, so there is one delay fewer than batches (none
\* for a single batch, none after the last one).
C35_BatchesAndDelays ==
    /\ scoringCall.largest <= batchSize
    /\ scoringCall.delays <= scoringCall.calls
    /\ scoringCall.at = "delay"
       => /\ scoringCall.delays = scoringCall.calls - 1
          /\ scoringCall.calls < BatchesNeeded(scoringCall.n)
    /\ scoringCall.at = "batch" => scoringCall.delays = scoringCall.calls
    /\ scoringCall.at = "done"
       => /\ scoringCall.calls = BatchesNeeded(scoringCall.n)
          /\ scoringCall.scored = scoringCall.n
          /\ scoringCall.delays = IF scoringCall.calls = 0 THEN 0 ELSE scoringCall.calls - 1

\* 101 listings were scored in three batches with two delays
C35_Reached ==
    /\ scoringCall.at = "done" /\ scoringCall.n = 101
    /\ scoringCall.calls = 3 /\ scoringCall.delays = 2 /\ scoringCall.largest = 50

\* the answer of the service has a record for the listing at index i
HasRecord(i) ==
    \E k \in 1..Len(batchCall.analysis) : batchCall.analysis[k].propertyIndex = i

\* the listing at index i of the batch is among the returned ones
Retained(i) ==
    \E k \in 1..Len(batchCall.qualifyingProperties) :
        batchCall.qualifyingProperties[k].listing_id = batchCall.properties[i]

C37_CriteriaNeverMutated ==
    [][\A j \in JobIds :
          /\ pc[j] # "idle" => params'[j] = params[j]
          /\ (~Stored(j) /\ Stored(j)') => jobResults'[j].parameters = params[j]
          /\ Stored(j) => jobResults'[j].parameters = params'[j]]_vars

\* a budget pass asked with a raised maxPrice and found the listings of the
\* stored result, whose parameters still hold the budget of the request
C37_Reached ==
    \E j \in JobIds :
        /\ Stored(j) /\ jobResults[j].source = "similar_listings"
        /\ jobResults[j].properties[1].fallbackStrategy = "progressive_budget_increase"
        /\ jobResults[j].parameters.maxPrice = 2000
        /\ AttemptParams(params[j], AttemptsOf(variant, params[j])[idx[j]]).maxPrice > 2000

FallbackStrategies ==
    {"progressive_budget_increase", "bedroom_flexibility",
     "similar_neighborhood", "last_resort"}

\* C38: a stored JobResult with source similar_listings has cacheHits 0,
\* thresholdLowered false and thresholdUsed equal to the threshold of the
\* job's criteria, and every one of its listings carries the fallback
\* annotation with one of the four strategy names.
C38_SimilarResultShape ==
    \A j \in JobIds :
        (Stored(j) /\ jobResults[j].source = "similar_listings")
        => /\ jobResults[j].summary.cacheHits = 0
           /\ jobResults[j].summary.thresholdLowered = FALSE
           /\ jobResults[j].summary.thresholdUsed
                 = jobResults[j].parameters.undervaluationThreshold
           /\ \A i \in 1..Len(jobResults[j].properties) :
                 jobResults[j].properties[i].fallbackStrategy \in FallbackStrategies

\* a similar_listings result is stored after lowered thresholds were tried
\* in vain, and it holds two annotated listings
C38_Reached ==
    \E j \in JobIds :
        /\ Stored(j) /\ jobResults[j].source = "similar_listings"
        /\ Len(ThresholdsOf(params[j])) > 1
        /\ Len(jobResults[j].properties) = 2
        /\ jobResults[j].properties[2].fallbackStrategy \in FallbackStrategies

\* C39: the provider calls of one job are bounded: the threshold search
\* makes at most 6 (the original threshold and at most five lowered ones),
\* the relaxation search at most 6 + 1 + 5*4 + 4 = 31, and so no job makes
\* more than 37.
C39_ProviderCallsBounded ==
    \A j \in JobIds :
        /\ providerCalls[j] <= 37
        /\ pc[j] = "threshold" => providerCalls[j] <= 6
        /\ pc[j] = "similar"
           => /\ se[j].apiCalls <= 6
              /\ providerCalls[j] - se[j].apiCalls <= 6 + 1 + 5 * 4 + 4

\* a job whose every pass found nothing has made all 37 calls
C39_Reached ==
    \E j \in JobIds :
        /\ providerCalls[j] = 37
        /\ Len(ThresholdsOf(params[j])) = 6
        /\ Len(AttemptsOf(variant, params[j])) = 31

\* C40: a job whose cache lookup returned no listings never ends with a
\* JobResult of source cache_only, whatever maxResults the request handlers
\* handed to startSmartSearch, 0 included.
C40_EmptyCacheNeverCacheOnly ==
    \A j \in JobIds :
        (Stored(j) /\ cacheAnswered[j] /\ cacheResults[j] = <<>>)
        => jobResults[j].source # "cache_only"

====
